---- MODULE Spec2Model ----
(***************************************************************************)
(* RegisterMap (src/hotspot/share/runtime/registerMap.hpp): the companion  *)
(* structure of one stack walk.  It records, per register, where the       *)
(* register's value lives (the _location table), guarded by a packed       *)
(* validity bitset (_location_valid), and the continuation stack chunk the *)
(* walk is in.                                                             *)
(*                                                                         *)
(* A map is a record with the fields of the class.  Each member function   *)
(* is an operator from a map to a value or to the map after the call; the  *)
(* actions apply the operators to the maps of the state and model the      *)
(* assert()s of the header, which exist in debug builds only.              *)
(***************************************************************************)
EXTENDS Integers, FiniteSets, Sequences, TLC

VARIABLES
  map,          \* the RegisterMap of the walk
  other,        \* a second RegisterMap (the argument of verify)
  debug_build,  \* TRUE iff the build defines ASSERT (assert, DEBUG_ONLY are compiled in)
  failed,       \* "" or the message of the assert that stopped the VM
  hist          \* history of the calls made so far (not program state)

vars == <<map, other, debug_build, failed, hist>>

---------------------------------------------------------------------------
(* Bounds of the model. *)

\* ConcreteRegisterImpl::number_of_registers is platform-defined; two words
\* of the validity bitset are needed to tell a word index from a bit index.
reg_count == 66
\* recorded addresses are 1..MaxAddr
MaxAddr == 2
\* stack chunks are 1..MaxChunks
MaxChunks == 1
\* set_stack_chunk is not called once _chunk_index has reached MaxChunkIndex
MaxChunkIndex == 2
\* frame identities are 1..MaxFrameId, callee first
MaxFrameId == 2
\* slot indices of location(base_reg, slot_idx) are -1..MaxSlot
MaxSlot == 2

---------------------------------------------------------------------------
(* Constants of the class. *)

\* sizeof(LocationValidType)*8, LocationValidType being julong
location_valid_type_size == 64

location_valid_size ==
  (reg_count + location_valid_type_size - 1) \div location_valid_type_size

AllRegs == 0 .. (reg_count - 1)

\* The registers the calls of the model name: the first and the last bit of
\* word 0 of the bitset, and the last register, which lies in word 1.
Regs == {0, location_valid_type_size - 1, reg_count - 1}

---------------------------------------------------------------------------
(* Addresses.  A recorded address and a value computed by the platform     *)
(* resolver are kept apart, so that a lookup shows where its result came   *)
(* from.                                                                   *)

NULL == [kind |-> "null", reg |-> 0, slot |-> 0]

Address(n) == [kind |-> "addr", reg |-> n, slot |-> 0]

Addrs == {Address(n) : n \in 1 .. MaxAddr}

\* the sp argument of location(VMReg, intptr_t*)
StackPointers == {NULL} \cup Addrs

\* pd_location(VMReg): the platform's resolver (CPU_HEADER(registerMap))
pd_location(reg) == [kind |-> "pd_location", reg |-> reg, slot |-> 0]

\* pd_location(VMReg base_reg, int slot_idx): the platform's multi-slot resolver
pd_location_slot(base_reg, slot_idx) ==
  [kind |-> "pd_location_slot", reg |-> base_reg, slot |-> slot_idx]

Chunks == 1 .. MaxChunks

FrameIds == 1 .. MaxFrameId

Slots == (-1) .. MaxSlot

---------------------------------------------------------------------------
(* Construction. *)

\* RegisterMap(JavaThread*, bool update_map, bool process_frames, bool walk_cont):
\* the Initialized state, validity bitset empty and no chunk attached.
RegisterMap(update_map, process_frames, walk_cont) ==
  [ _location              |-> [r \in AllRegs |-> NULL],
    _location_valid        |-> [i \in 0 .. (location_valid_size - 1) |-> {}],
    _include_argument_oops |-> TRUE,
    _chunk                 |-> 0,
    _chunk_index           |-> 0,
    _update_map            |-> update_map,
    _process_frames        |-> process_frames,
    _walk_cont             |-> walk_cont,
    _update_for_id         |-> 0 ]

\* a copy that takes the flags and the chunk and starts with an empty table
RegisterMap_copy_empty(mp) ==
  [ RegisterMap(mp._update_map, mp._process_frames, mp._walk_cont)
      EXCEPT !._include_argument_oops = mp._include_argument_oops,
             !._chunk                 = mp._chunk,
             !._chunk_index           = mp._chunk_index,
             !._update_for_id         = mp._update_for_id ]

\* RegisterMap(const RegisterMap* map): a second map that starts with the
\* recorded state of the first.  The handle _chunk is the chunk it holds.
RegisterMap_copy(mp) ==
  [ _location              |-> [r \in AllRegs |-> mp._location[r]],
    _location_valid        |-> [i \in 0 .. (location_valid_size - 1) |-> mp._location_valid[i]],
    _include_argument_oops |-> mp._include_argument_oops,
    _chunk                 |-> mp._chunk,
    _chunk_index           |-> mp._chunk_index,
    _update_map            |-> mp._update_map,
    _process_frames        |-> mp._process_frames,
    _walk_cont             |-> mp._walk_cont,
    _update_for_id         |-> mp._update_for_id ]

---------------------------------------------------------------------------
(* Member functions.  A word of _location_valid is the set of the          *)
(* positions of its one bits: w & (1 << b) is b \in w, w |= (1 << b) is    *)
(* w \cup {b}, and the zero word is {}.                                    *)

\* location with the word index forgotten: every register tests word 0
location_word0(mp, reg, sp) ==
  IF (reg % location_valid_type_size) \in mp._location_valid[0]
    THEN mp._location[reg]
    ELSE pd_location(reg)

\* location taking a non-null table entry for a valid one
location_nonnull(mp, reg, sp) ==
  IF mp._location[reg] # NULL THEN mp._location[reg] ELSE pd_location(reg)

location(mp, reg, sp) ==
  LET index == reg \div location_valid_type_size IN
  IF (reg % location_valid_type_size) \in mp._location_valid[index]
    THEN mp._location[reg]
    ELSE pd_location(reg)

\* location(VMReg, int) with slot_idx >= 0 for slot_idx > 0
location_slot_ge(mp, base_reg, slot_idx) ==
  IF slot_idx >= 0
    THEN pd_location_slot(base_reg, slot_idx)
    ELSE location(mp, base_reg, NULL)

\* location(VMReg base_reg, int slot_idx)
location_slot(mp, base_reg, slot_idx) ==
  IF slot_idx > 0
    THEN pd_location_slot(base_reg, slot_idx)
    ELSE location(mp, base_reg, NULL)

\* trusted_location that checks the validity bit, as location does
trusted_location_checked(mp, reg) == location(mp, reg, NULL)

trusted_location(mp, reg) == mp._location[reg]

verify(mp, oth) == \A i \in AllRegs : mp._location[i] = oth._location[i]

\* set_location with = for |=: the other bits of the word are lost
set_location_assign(mp, reg, loc) ==
  LET index == reg \div location_valid_type_size IN
  [mp EXCEPT !._location[reg] = loc,
             !._location_valid[index] = {reg % location_valid_type_size}]

\* set_location with the assert on _update_map turned into an early return
set_location_if_update(mp, reg, loc) ==
  LET index == reg \div location_valid_type_size IN
  IF ~mp._update_map
    THEN mp
    ELSE [mp EXCEPT !._location[reg] = loc,
                    !._location_valid[index] = @ \cup {reg % location_valid_type_size}]

\* set_location that keeps the entry of a register already valid
set_location_keep(mp, reg, loc) ==
  LET index == reg \div location_valid_type_size IN
  IF (reg % location_valid_type_size) \in mp._location_valid[index]
    THEN mp
    ELSE [mp EXCEPT !._location[reg] = loc,
                    !._location_valid[index] = @ \cup {reg % location_valid_type_size}]

\* the body of set_location after its asserts.  check_location_valid() is
\* empty without ASSERT and only declared with it; it is taken to change
\* nothing.
set_location(mp, reg, loc) ==
  LET index == reg \div location_valid_type_size IN
  [mp EXCEPT !._location[reg] = loc,
             !._location_valid[index] = @ \cup {reg % location_valid_type_size}]

\* the asserts of set_location without assert(_update_map, ...)
set_location_asserts_range(mp, reg) ==
  LET index == reg \div location_valid_type_size IN
  IF ~(0 <= reg /\ reg < reg_count) THEN "range check"
  ELSE IF ~(0 <= index /\ index < location_valid_size) THEN "range check"
  ELSE ""

\* the asserts of set_location, in a debug build: the message of the first
\* one that fails, or ""
set_location_asserts(mp, reg) ==
  LET index == reg \div location_valid_type_size IN
  IF ~(0 <= reg /\ reg < reg_count) THEN "range check"
  ELSE IF ~(0 <= index /\ index < location_valid_size) THEN "range check"
  ELSE IF ~mp._update_map THEN "updating map that does not need updating"
  ELSE ""

\* clear(): zeroes the validity bitset; the table keeps its entries
clear(mp) ==
  [mp EXCEPT !._location_valid = [i \in 0 .. (location_valid_size - 1) |-> {}]]

include_argument_oops(mp) == mp._include_argument_oops

set_include_argument_oops(mp, f) == [mp EXCEPT !._include_argument_oops = f]

update_map(mp) == mp._update_map

process_frames(mp) == mp._process_frames

walk_cont(mp) == mp._walk_cont

\* set_walk_cont that writes the field declared before _walk_cont
set_walk_cont_process_frames(mp, value) == [mp EXCEPT !._process_frames = value]

set_walk_cont(mp, value) == [mp EXCEPT !._walk_cont = value]

\* in_cont with == for !=
in_cont_eq(mp) == mp._chunk = 0

in_cont(mp) == mp._chunk # 0

stack_chunk(mp) == mp._chunk

\* set_stack_chunk that attaches the chunk and leaves the index
set_stack_chunk_same_index(mp, chunk) == [mp EXCEPT !._chunk = chunk]

\* set_stack_chunk(chunk): attaches the chunk and increments _chunk_index
set_stack_chunk(mp, chunk) ==
  [mp EXCEPT !._chunk = chunk, !._chunk_index = @ + 1]

stack_chunk_index(mp) == mp._chunk_index

set_stack_chunk_index(mp, index) == [mp EXCEPT !._chunk_index = index]

---------------------------------------------------------------------------
(* History of the calls made on map, kept beside the program state so that *)
(* the properties can speak of what was called.                            *)

None == [kind |-> "none", reg |-> 0, slot |-> 0]

HistInit ==
  [ lastSet         |-> [r \in Regs |-> None],  \* address of the last set_location(r, _) since the last clear(), if any
    everSet         |-> [r \in Regs |-> None],  \* address of the last set_location(r, _) since construction, if any
    cleared         |-> FALSE,                  \* clear() has been called
    chunkSet        |-> FALSE,                  \* set_stack_chunk has been called
    lastChunkIndex  |-> 0,                      \* stack_chunk_index() read after the last set_stack_chunk
    chunkRun        |-> 0,                      \* set_stack_chunk calls since construction or the last set_stack_chunk_index
    overwrote       |-> FALSE,                  \* since the last clear(), a set_location replaced an address set since then by another
    frameSinceClear |-> 0,                      \* the frame updated last, if that was since the last clear()
    reentered       |-> FALSE,                  \* since the last clear(), an update was accepted for the frame updated just before it
    walk            |-> "before",               \* "started" once map and other are driven by the same calls, "stepped" after the first of them
    startEqual      |-> FALSE,                  \* the two tables were equal when that started
    copied          |-> FALSE,                  \* other has been copy-constructed from map
    snap            |-> RegisterMap(TRUE, TRUE, FALSE) ]  \* map as it was when other was copy-constructed from it

---------------------------------------------------------------------------
(* The state after construction. *)

\* RegisterMap map(thread, update_map): process_frames and walk_cont take the
\* defaults of the declaration.
Init ==
  /\ \E u \in BOOLEAN : map = RegisterMap(u, TRUE, FALSE)
  /\ other = RegisterMap(TRUE, TRUE, FALSE)
  /\ debug_build \in BOOLEAN
  /\ failed = ""
  /\ hist = HistInit

---------------------------------------------------------------------------
(* Calls on map.  A failed assert stops the VM: no call follows it. *)

SetLocation(reg, loc) ==
  /\ failed = ""
  /\ LET msg == set_location_asserts(map, reg) IN
     IF debug_build /\ msg # ""
       THEN /\ failed' = msg
            /\ UNCHANGED <<map, hist>>
       ELSE /\ map' = set_location(map, reg, loc)
            /\ hist' = [hist EXCEPT !.lastSet[reg] = loc,
                                    !.everSet[reg] = loc,
                                    !.overwrote = @ \/ hist.lastSet[reg] \notin {None, loc}]
            /\ UNCHANGED failed
  /\ UNCHANGED <<other, debug_build>>

Clear ==
  /\ failed = ""
  /\ map' = clear(map)
  /\ hist' = [hist EXCEPT !.lastSet = [r \in Regs |-> None],
                          !.cleared = TRUE,
                          !.overwrote = FALSE,
                          !.frameSinceClear = 0,
                          !.reentered = FALSE]
  /\ UNCHANGED <<other, debug_build, failed>>

SetStackChunk(chunk) ==
  /\ failed = ""
  /\ map._chunk_index < MaxChunkIndex
  /\ map' = set_stack_chunk(map, chunk)
  /\ hist' = [hist EXCEPT !.chunkSet = TRUE,
                          !.lastChunkIndex = stack_chunk_index(map'),
                          !.chunkRun = @ + 1]
  /\ UNCHANGED <<other, debug_build, failed>>

SetStackChunkIndex(index) ==
  /\ failed = ""
  /\ map' = set_stack_chunk_index(map, index)
  /\ hist' = [hist EXCEPT !.chunkRun = 0]
  /\ UNCHANGED <<other, debug_build, failed>>

SetIncludeArgumentOops(f) ==
  /\ failed = ""
  /\ map' = set_include_argument_oops(map, f)
  /\ UNCHANGED <<other, debug_build, failed, hist>>

SetWalkCont(value) ==
  /\ failed = ""
  /\ map' = set_walk_cont(map, value)
  /\ UNCHANGED <<other, debug_build, failed, hist>>

\* A frame-transition update for the frame id (the frame's sender
\* computation, which then calls set_location).  A debug build keeps the
\* frame the map was updated for in _update_for_id and asserts that the map
\* is not updated twice for the same frame; a product build has no such
\* field (DEBUG_ONLY).
\* a build that does not assert on _update_for_id
update_for_id_asserts_none(mp, id) == ""

update_for_id_asserts(mp, id) ==
  IF mp._update_for_id = id THEN "RegisterMap updated twice for same frame" ELSE ""

UpdateFrame(id) ==
  /\ failed = ""
  /\ IF debug_build /\ update_for_id_asserts(map, id) # ""
       THEN /\ failed' = update_for_id_asserts(map, id)
            /\ UNCHANGED <<map, hist>>
       ELSE /\ map' = [map EXCEPT !._update_for_id = IF debug_build THEN id ELSE @]
            /\ hist' = [hist EXCEPT !.frameSinceClear = id,
                                    !.reentered = @ \/ hist.frameSinceClear = id]
            /\ UNCHANGED failed
  /\ UNCHANGED <<other, debug_build>>

---------------------------------------------------------------------------
(* The walk of one map: the register table and the chunk linkage. *)

Next ==
  \/ \E reg \in Regs, loc \in Addrs : SetLocation(reg, loc)
  \/ Clear
  \/ \E chunk \in Chunks : SetStackChunk(chunk)
  \/ \E index \in 0 .. MaxChunkIndex : SetStackChunkIndex(index)

Spec == Init /\ [][Next]_vars

---------------------------------------------------------------------------
(* The walk of one map constructed with any arguments, with the setters of *)
(* the flags.  The flags and the chunk do not read the recorded addresses, *)
(* so one address is recorded here.                                        *)

ConfigAddrs == {Address(1)}

InitConfig ==
  /\ \E u \in BOOLEAN, p \in BOOLEAN, w \in BOOLEAN : map = RegisterMap(u, p, w)
  /\ other = RegisterMap(TRUE, TRUE, FALSE)
  /\ debug_build \in BOOLEAN
  /\ failed = ""
  /\ hist = HistInit

NextConfig ==
  \/ \E reg \in Regs, loc \in ConfigAddrs : SetLocation(reg, loc)
  \/ Clear
  \/ \E chunk \in Chunks : SetStackChunk(chunk)
  \/ \E index \in 0 .. MaxChunkIndex : SetStackChunkIndex(index)
  \/ \E f \in BOOLEAN : SetIncludeArgumentOops(f)
  \/ \E value \in BOOLEAN : SetWalkCont(value)

SpecConfig == InitConfig /\ [][NextConfig]_vars

---------------------------------------------------------------------------
(* The protocol of the walk: frame-transition updates, each followed by    *)
(* the set_location calls of its frame, and clear() at a boundary frame.   *)

NextFrames ==
  \/ \E id \in FrameIds : UpdateFrame(id)
  \/ \E reg \in Regs, loc \in Addrs : SetLocation(reg, loc)
  \/ Clear

SpecFrames == Init /\ [][NextFrames]_vars

---------------------------------------------------------------------------
(* Two walks of the same stack, one with map and one with other.  map is   *)
(* newly constructed; other may have been used before.  From BeginWalk on, *)
(* every frame-transition update makes the same call on map and then on    *)
(* other.                                                                  *)

InitWalk ==
  /\ \E u \in BOOLEAN, v \in BOOLEAN :
       /\ map = RegisterMap(u, TRUE, FALSE)
       /\ other = RegisterMap(v, TRUE, FALSE)
  /\ debug_build \in BOOLEAN
  /\ failed = ""
  /\ hist = HistInit

OtherSetLocation(reg, loc) ==
  /\ failed = ""
  /\ LET msg == set_location_asserts(other, reg) IN
     IF debug_build /\ msg # ""
       THEN /\ failed' = msg
            /\ UNCHANGED other
       ELSE /\ other' = set_location(other, reg, loc)
            /\ UNCHANGED failed
  /\ UNCHANGED <<map, debug_build, hist>>

OtherClear ==
  /\ failed = ""
  /\ other' = clear(other)
  /\ UNCHANGED <<map, debug_build, failed, hist>>

BeginWalk ==
  /\ failed = ""
  /\ hist.walk = "before"
  /\ hist' = [hist EXCEPT !.walk = "started", !.startEqual = verify(map, other)]
  /\ UNCHANGED <<map, other, debug_build, failed>>

WalkSetLocation(reg, loc) ==
  /\ failed = ""
  /\ hist.walk # "before"
  /\ LET msg  == set_location_asserts(map, reg)
         msgo == set_location_asserts(other, reg) IN
     IF debug_build /\ msg # ""
       THEN /\ failed' = msg
            /\ UNCHANGED <<map, other, hist>>
       ELSE /\ map' = set_location(map, reg, loc)
            /\ hist' = [hist EXCEPT !.lastSet[reg] = loc,
                                    !.everSet[reg] = loc,
                                    !.overwrote = @ \/ hist.lastSet[reg] \notin {None, loc},
                                    !.walk = "stepped"]
            /\ IF debug_build /\ msgo # ""
                 THEN /\ failed' = msgo
                      /\ UNCHANGED other
                 ELSE /\ other' = set_location(other, reg, loc)
                      /\ UNCHANGED failed
  /\ UNCHANGED debug_build

WalkClear ==
  /\ failed = ""
  /\ hist.walk # "before"
  /\ map' = clear(map)
  /\ other' = clear(other)
  /\ hist' = [hist EXCEPT !.lastSet = [r \in Regs |-> None],
                          !.cleared = TRUE,
                          !.overwrote = FALSE,
                          !.frameSinceClear = 0,
                          !.reentered = FALSE,
                          !.walk = "stepped"]
  /\ UNCHANGED <<debug_build, failed>>

NextWalk ==
  \/ hist.walk = "before" /\ \E reg \in Regs, loc \in Addrs : OtherSetLocation(reg, loc)
  \/ hist.walk = "before" /\ OtherClear
  \/ BeginWalk
  \/ \E reg \in Regs, loc \in Addrs : WalkSetLocation(reg, loc)
  \/ WalkClear

SpecWalk == InitWalk /\ [][NextWalk]_vars

---------------------------------------------------------------------------
(* A walk that branches: other is copy-constructed from map, and then both *)
(* are used.  After the copy, each of the two maps gets calls until one of *)
(* them has changed it.                                                    *)

OtherSetStackChunk(chunk) ==
  /\ failed = ""
  /\ other._chunk_index < MaxChunkIndex
  /\ other' = set_stack_chunk(other, chunk)
  /\ UNCHANGED <<map, debug_build, failed, hist>>

OtherSetIncludeArgumentOops(f) ==
  /\ failed = ""
  /\ other' = set_include_argument_oops(other, f)
  /\ UNCHANGED <<map, debug_build, failed, hist>>

OtherSetWalkCont(value) ==
  /\ failed = ""
  /\ other' = set_walk_cont(other, value)
  /\ UNCHANGED <<map, debug_build, failed, hist>>

\* RegisterMap other(&map)
Copy ==
  /\ failed = ""
  /\ ~hist.copied
  /\ other' = RegisterMap_copy(map)
  /\ hist' = [hist EXCEPT !.copied = TRUE, !.snap = map]
  /\ UNCHANGED <<map, debug_build, failed>>

OriginalUntouched == ~hist.copied \/ map = hist.snap

CopyUntouched == hist.copied /\ other = RegisterMap_copy(hist.snap)

NextCopy ==
  \/ OriginalUntouched /\ \E reg \in Regs, loc \in ConfigAddrs : SetLocation(reg, loc)
  \/ OriginalUntouched /\ Clear
  \/ OriginalUntouched /\ \E chunk \in Chunks : SetStackChunk(chunk)
  \/ OriginalUntouched /\ \E f \in BOOLEAN : SetIncludeArgumentOops(f)
  \/ OriginalUntouched /\ \E value \in BOOLEAN : SetWalkCont(value)
  \/ Copy
  \/ CopyUntouched /\ \E reg \in Regs, loc \in ConfigAddrs : OtherSetLocation(reg, loc)
  \/ CopyUntouched /\ OtherClear
  \/ CopyUntouched /\ \E chunk \in Chunks : OtherSetStackChunk(chunk)
  \/ CopyUntouched /\ \E f \in BOOLEAN : OtherSetIncludeArgumentOops(f)
  \/ CopyUntouched /\ \E value \in BOOLEAN : OtherSetWalkCont(value)

SpecCopy == InitConfig /\ [][NextCopy]_vars

---------------------------------------------------------------------------
(* Properties. *)

valid(mp, r) ==
  (r % location_valid_type_size) \in mp._location_valid[r \div location_valid_type_size]

\* r has not been set since construction or since the last clear()
NotSet(r) == r \notin Regs \/ hist.lastSet[r] = None

\* C1: a register that has not been set since construction or since the last
\* clear() is looked up by the platform resolver, whatever its table entry.
C1_UnsetFallsBack ==
  \A r \in AllRegs : NotSet(r) =>
    \A sp \in StackPointers : location(map, r, sp) = pd_location(r)

\* a register that is not set holds a stale address, and another one is set
C1_Witness ==
  \E r \in Regs, q \in Regs :
    /\ NotSet(r) /\ map._location[r] \in Addrs
    /\ ~NotSet(q)
    /\ in_cont(map)

\* C2: on a map with updating enabled, from set_location(r, addr) to the
\* next set_location(r, _) or clear(), location(r, sp) is addr for every sp
\* and trusted_location(r) is addr.
C2_SetThenGet ==
  update_map(map) =>
    \A r \in Regs : hist.lastSet[r] # None =>
      /\ \A sp \in StackPointers : location(map, r, sp) = hist.lastSet[r]
      /\ trusted_location(map, r) = hist.lastSet[r]

\* the two registers of word 0 are set, to different addresses
C2_Witness ==
  /\ update_map(map)
  /\ hist.lastSet[0] \in Addrs
  /\ hist.lastSet[location_valid_type_size - 1] \in Addrs \ {hist.lastSet[0]}
  /\ in_cont(map)

\* C3: once clear() has been called, every register not set since has its
\* validity bit off and is looked up by the platform resolver, and as long
\* as no register has been set since, every word of the bitset is zero.
C3_ClearResets ==
  hist.cleared =>
    /\ \A r \in AllRegs : NotSet(r) =>
         /\ ~valid(map, r)
         /\ \A sp \in StackPointers : location(map, r, sp) = pd_location(r)
    /\ (\A r \in Regs : NotSet(r)) =>
         \A i \in 0 .. (location_valid_size - 1) : map._location_valid[i] = {}

\* clear() was called with every register of the model set, and none since
C3_Witness ==
  /\ hist.cleared
  /\ \A r \in Regs : NotSet(r) /\ map._location[r] \in Addrs

\* C4 as claimed: set_location on a map with updating disabled fails and
\* leaves the table and the bitset as they were.
C4_Original ==
  [][\A reg \in Regs, loc \in Addrs :
       (SetLocation(reg, loc) /\ ~update_map(map)) =>
         /\ failed' # ""
         /\ map'._location = map._location
         /\ map'._location_valid = map._location_valid]_vars

\* C4: in a debug build, set_location on a map with updating disabled fails
\* its assert and leaves the map as it was.
C4_DebugRejects ==
  [][\A reg \in Regs, loc \in Addrs :
       (SetLocation(reg, loc) /\ ~update_map(map) /\ debug_build) =>
         /\ failed' = "updating map that does not need updating"
         /\ map' = map]_vars

\* the assert of set_location has stopped the VM
C4_Witness ==
  /\ failed = "updating map that does not need updating"
  /\ ~update_map(map)
  /\ \A r \in AllRegs, sp \in StackPointers : location(map, r, sp) = pd_location(r)

\* C5 as claimed: the index read after a set_stack_chunk call is greater
\* than the index read after the set_stack_chunk call before it.
C5_Original ==
  [][\A chunk \in Chunks :
       (SetStackChunk(chunk) /\ hist.chunkSet) =>
         stack_chunk_index(map') > hist.lastChunkIndex]_vars

\* C5: the index read after a set_stack_chunk call is greater than the index
\* read after the set_stack_chunk call before it, when set_stack_chunk_index
\* was not called between the two.
C5_IncreasesWithoutSetIndex ==
  [][\A chunk \in Chunks :
       (SetStackChunk(chunk) /\ hist.chunkSet /\ hist.chunkRun > 0) =>
         stack_chunk_index(map') > hist.lastChunkIndex]_vars

\* two set_stack_chunk calls in a row
C5_Witness ==
  /\ hist.chunkRun >= 2
  /\ stack_chunk_index(map) = hist.lastChunkIndex

\* C6: in_cont() is true exactly when a chunk has been attached: false after
\* construction, true from the first set_stack_chunk on.
C6_InContIffAttached == in_cont(map) <=> hist.chunkSet

\* a chunk has been attached
C6_Witness == hist.chunkSet /\ in_cont(map) /\ stack_chunk(map) \in Chunks

\* C8 as claimed: an accepted set_location never writes the entry of a
\* register already written since the last clear().
C8_Original ==
  [][\A reg \in Regs, loc \in Addrs :
       (SetLocation(reg, loc) /\ failed' = "") => hist.lastSet[reg] = None]_vars

\* C8: a register whose validity bit is set has been set since the last
\* clear(), and its entry is the address of the last set_location call for it.
C8_ValidHoldsLastWrite ==
  \A r \in AllRegs : valid(map, r) =>
    /\ ~NotSet(r)
    /\ map._location[r] = hist.lastSet[r]

\* a valid register was written a second time, with another address
C8_Witness ==
  /\ hist.overwrote
  /\ \E r \in Regs : valid(map, r)

\* C9: location(base_reg, slot_idx) is the multi-slot resolver's value when
\* slot_idx > 0, whatever the map records for base_reg, and the scalar lookup
\* location(base_reg, sp) when slot_idx = 0.
C9_SlotLookup ==
  \A r \in AllRegs, slot_idx \in Slots :
    /\ slot_idx > 0 => location_slot(map, r, slot_idx) = pd_location_slot(r, slot_idx)
    /\ slot_idx = 0 =>
         \A sp \in StackPointers : location_slot(map, r, slot_idx) = location(map, r, sp)

\* one register is valid and another is not
C9_Witness ==
  \E r \in Regs, q \in Regs :
    /\ valid(map, r) /\ map._location[r] \in Addrs
    /\ ~valid(map, q) /\ map._location[q] \in Addrs

C7_Original ==
  (hist.walk # "before" /\ failed = "") => verify(map, other)

\* C7: two maps whose tables are equal when the walks start, and which are
\* then driven by the same set_location and clear calls, satisfy verify().
C7_EqualStartVerifies ==
  (hist.walk # "before" /\ hist.startEqual /\ failed = "") => verify(map, other)

\* the walks started with equal tables, on maps constructed differently, and
\* have recorded an address and cleared
C7_Witness ==
  /\ hist.walk = "stepped"
  /\ hist.startEqual
  /\ failed = ""
  /\ update_map(map) # update_map(other)
  /\ \E r \in Regs : valid(map, r) /\ valid(other, r) /\ map._location[r] \in Addrs
  /\ \E r \in Regs : ~valid(map, r) /\ ~valid(other, r) /\ map._location[r] \in Addrs

\* the location table, the validity bitset, the chunk, the chunk index and
\* the flags of two maps are the same
SameRecordedState(a, b) ==
  /\ a._location = b._location
  /\ a._location_valid = b._location_valid
  /\ stack_chunk(a) = stack_chunk(b)
  /\ stack_chunk_index(a) = stack_chunk_index(b)
  /\ include_argument_oops(a) = include_argument_oops(b)
  /\ update_map(a) = update_map(b)
  /\ process_frames(a) = process_frames(b)
  /\ walk_cont(a) = walk_cont(b)

C12_TrustedIgnoresValidity ==
  \A r \in Regs : hist.everSet[r] # None =>
    /\ trusted_location(map, r) = hist.everSet[r]
    /\ NotSet(r) =>
         \A sp \in StackPointers :
           /\ location(map, r, sp) = pd_location(r)
           /\ location(map, r, sp) # trusted_location(map, r)

\* one register was set and then cleared, another was set after the clear()
C12_Witness ==
  \E r \in Regs, q \in Regs :
    /\ hist.everSet[r] \in Addrs /\ NotSet(r)
    /\ hist.everSet[q] \in Addrs /\ ~NotSet(q)

\* C13: set_location(reg, loc) leaves the validity bit and the entry of
\* every other register, the flags, the chunk and the chunk index as they
\* were.
C13_SetLocationFrame ==
  [][\A reg \in Regs, loc \in ConfigAddrs :
       SetLocation(reg, loc) =>
         /\ \A q \in AllRegs \ {reg} :
              /\ valid(map', q) <=> valid(map, q)
              /\ map'._location[q] = map._location[q]
         /\ include_argument_oops(map') = include_argument_oops(map)
         /\ update_map(map') = update_map(map)
         /\ process_frames(map') = process_frames(map)
         /\ walk_cont(map') = walk_cont(map)
         /\ stack_chunk(map') = stack_chunk(map)
         /\ stack_chunk_index(map') = stack_chunk_index(map)]_vars

\* every register of the model is valid, two of them in the same word, on a
\* map with a chunk attached and both settable flags changed
C13_Witness ==
  /\ \A r \in Regs : valid(map, r) /\ map._location[r] \in Addrs
  /\ in_cont(map)
  /\ stack_chunk_index(map) > 0
  /\ ~include_argument_oops(map)
  /\ walk_cont(map)

\* C14: no call changes update_map() or process_frames(); walk_cont() is
\* changed by set_walk_cont only and include_argument_oops() by
\* set_include_argument_oops only.
C14_FlagsFixed ==
  [][/\ update_map(map') = update_map(map)
     /\ process_frames(map') = process_frames(map)
     /\ walk_cont(map') # walk_cont(map) =>
          \E value \in BOOLEAN : SetWalkCont(value)
     /\ include_argument_oops(map') # include_argument_oops(map) =>
          \E f \in BOOLEAN : SetIncludeArgumentOops(f)]_vars

\* a map constructed without updating and without frame processing, after
\* calls of every kind
C14_Witness ==
  /\ ~update_map(map)
  /\ ~process_frames(map)
  /\ walk_cont(map)
  /\ ~include_argument_oops(map)
  /\ in_cont(map)
  /\ stack_chunk_index(map) # hist.lastChunkIndex
  /\ hist.cleared
  /\ \E r \in Regs : valid(map, r)

====
